---- MODULE Spec2Model ----
(***************************************************************************)
(* nuitka/transform/optimizations/Optimization.py: the tag driven          *)
(* optimization loop of one module (optimizeTree) and the driver over all  *)
(* modules of the program (optimizeWhole).                                 *)
(*                                                                         *)
(* Tags.py (TagSet), oset.py (OrderedSet), TreeRecursion and the visitors  *)
(* are not among the source files at hand.  OrderedSet, TagSet.add,        *)
(* TagSet.clear, TagSet.onSignal and the module registry follow the        *)
(* written specification.  For TagSet.check two readings have a source:    *)
(* section 4.1 of the specification (every tag of the predicate must be    *)
(* present) and the comment of Optimization.py:81 ("tag that causes all    *)
(* steps to be run", which presupposes that one present tag suffices).     *)
(* The variable check_all fixes the reading for a whole behaviour.         *)
(***************************************************************************)
EXTENDS Integers, Sequences, FiniteSets, TLC

\* ------------------------------------------------------------------ bounds
\* module handles besides the entry module
MaxOtherModules == 2
\* tags the passes of one optimizeTree run emit in total
MaxEmits == 1

\* ------------------------------------------------------------- vocabulary
main_module == 0

Modules == 0 .. MaxOtherModules

Tags ==
    { "new_code", "new_variable", "new_import", "new_constant", "new_statements",
      "read_only_mvar", "new_builtin", "var_usage", "new_raise" }

\* OptimizeVariableClosure.VariableClosureLookupVisitors: a group of passes
VariableClosureLookupVisitors ==
    << "VariableClosureLookupVisitorPhase1", "VariableClosureLookupVisitorPhase2" >>

\* the names bound by the imports of Optimization.py
ImportedVisitors ==
    { "ModuleRecursionVisitor", "OptimizeExecVisitor",
      "ModuleVariableUsageAnalysisVisitor", "ModuleVariableReadOnlyVisitor",
      "MaybeLocalVariableReductionVisitor", "ReplaceBuiltinsCriticalVisitor",
      "ReplaceBuiltinsOptionalVisitor", "ReplaceBuiltinsExceptionsVisitor",
      "PrecomputeBuiltinsVisitor", "OptimizeOperationVisitor",
      "OptimizeFunctionCallArgsVisitor", "ReplaceUnpackingVisitor",
      "StatementSequencesCleanupVisitor", "OptimizeRaisesVisitor" }

Range(s) == { s[i] : i \in DOMAIN s }

DefinedPasses == ImportedVisitors \cup Range(VariableClosureLookupVisitors)

\* the rule table of refreshOptimizationsFromTags, top to bottom; tags is the
\* predicate string split at blanks, option the Options test of the rule
Rules ==
    << [tags |-> << "new_code", "new_variable" >>, option |-> "none",
        passes |-> VariableClosureLookupVisitors],
       [tags |-> << "new_code", "new_import", "new_constant" >>, option |-> "not shallMakeModule",
        passes |-> << "ModuleRecursionVisitor" >>],
       [tags |-> << "new_code", "new_constant" >>, option |-> "not use_propagation",
        passes |-> << "OptimizeOperationVisitor" >>],
       [tags |-> << "new_code", "new_constant" >>, option |-> "none",
        passes |-> << "OptimizeFunctionCallArgsVisitor" >>],
       [tags |-> << "new_code", "new_constant" >>, option |-> "none",
        passes |-> << "ReplaceUnpackingVisitor" >>],
       [tags |-> << "new_code", "new_statements", "new_constant" >>, option |-> "not use_propagation",
        passes |-> << "StatementSequencesCleanupVisitor" >>],
       [tags |-> << "new_code", "new_variable" >>, option |-> "none",
        passes |-> << "ModuleVariableUsageAnalysisVisitor" >>],
       [tags |-> << "new_code", "read_only_mvar" >>, option |-> "none",
        passes |-> << "ModuleVariableReadOnlyVisitor" >>],
       [tags |-> << "new_code", "read_only_mvar" >>, option |-> "not use_propagation",
        passes |-> << "ReplaceBuiltinsCriticalVisitor" >>],
       [tags |-> << "new_code", "read_only_mvar" >>, option |-> "not use_propagation",
        passes |-> << "ReplaceBuiltinsOptionalVisitor" >>],
       [tags |-> << "new_code", "read_only_mvar" >>, option |-> "none",
        passes |-> << "ReplaceBuiltinsExceptionsVisitor" >>],
       [tags |-> << "new_builtin", "new_constant" >>, option |-> "not use_propagation",
        passes |-> << "PrecomputeBuiltinsVisitor" >>],
       [tags |-> << "var_usage", "new_builtin" >>, option |-> "none",
        passes |-> << "MaybeLocalVariableReductionVisitor" >>],
       [tags |-> << "new_code", "new_constant" >>, option |-> "shallOptimizeStringExec",
        passes |-> << "OptimizeExecVisitor" >>],
       [tags |-> << "new_code", "new_raise" >>, option |-> "none",
        passes |-> << "OptimizeRaisesVisitor" >>],
       [tags |-> << "new_code", "new_statements", "new_constant", "new_builtin" >>,
        option |-> "use_propagation",
        passes |-> << "ValuePropagationVisitor" >>] >>

\* every pass a rule names
Passes == UNION { Range(Rules[i].passes) : i \in DOMAIN Rules }

\* the tags of rule i as a set
RuleTags(i) == Range(Rules[i].tags)

\* the rule that names the pass
RuleOf(visitor) == CHOOSE i \in DOMAIN Rules : visitor \in Range(Rules[i].passes)

VARIABLES
    \* configuration, fixed for one compilation
    use_propagation,            \* Options.useValuePropagation()
    shallMakeModule,            \* Options.shallMakeModule()
    shallOptimizeStringExec,    \* Options.shallOptimizeStringExec()
    _progress,                  \* Options.isShowProgress()
    check_all,                  \* TagSet.check reads the predicate as a conjunction
    reemitting,                 \* the pass that emits the tags of its rule whenever it runs, if any
    emit_budget,                \* tags the other passes of one optimizeTree run emit in total
    \* optimizeWhole
    pc,                         \* position in optimizeWhole / optimizeTree
    caller,                     \* the call of optimizeTree that is running
    imported_modules,           \* TreeRecursion.imported_modules (the registry)
    done_modules,
    finished,
    other_modules,              \* what is left of the list the for loop walks
    result,                     \* the tree optimizeWhole returns
    \* optimizeTree
    tree,                       \* the module being optimized
    optimizations_queue,
    tags,
    next_optimization,
    \* history
    emits_left,                 \* tags the passes of this run may still emit
    emitted_since,              \* the tag sets passes emitted since the last refresh, in order
    last_step,                  \* the statement executed last
    last_refresh,               \* queue and tags the last refresh started from
    new_in_sweep,               \* modules registered since the current sweep began
    discovered,                 \* the modules registered by passes while a sweep was running
    calls,                      \* per module, the calls of optimizeTree so far
    sweep_processed,            \* the current sweep has called optimizeTree
    idle_sweeps,                \* the completed sweeps that called optimizeTree for no module
    printed                     \* the count of the last progress line printed, if any

config_vars ==
    << use_propagation, shallMakeModule, shallOptimizeStringExec, _progress, check_all,
       reemitting, emit_budget >>

whole_vars == << imported_modules, done_modules, finished, other_modules, result >>

tree_vars == << tree, optimizations_queue, tags, next_optimization >>

history_vars == << emits_left, emitted_since, last_refresh, new_in_sweep, discovered >>

driver_history == << calls, sweep_processed, idle_sweeps, printed >>

vars ==
    << config_vars, pc, caller, last_step, whole_vars, tree_vars, history_vars, driver_history >>

NoModule == main_module - 1

NoPass == "none"

NoRefresh == [before |-> << >>, seen |-> {}, initial |-> FALSE, emitted |-> << >>]

\* --------------------------------------------------------- TagSet (Tags.py)
\* TagSet.check( "a b c" )
check(tagset, predicate) ==
    IF check_all
    THEN \A i \in DOMAIN predicate : predicate[i] \in tagset
    ELSE \E i \in DOMAIN predicate : predicate[i] \in tagset

\* TagSet.onSignal, called by a pass once per tag it emits
onSignal(tagset, emitted) == tagset \cup emitted

\* ---------------------------------------------------- OrderedSet (oset.py)
\* mutant of add: a key that is present is moved to the back
addMovingToBack(queue, key) ==
    Append(SelectSeq(queue, LAMBDA other : other # key), key)

\* OrderedSet.add( key ): at the back unless already present
add(queue, key) ==
    IF key \in Range(queue) THEN queue ELSE Append(queue, key)

\* OrderedSet.update( keys ): add each in turn
RECURSIVE update(_, _)
update(queue, keys) ==
    IF keys = << >> THEN queue ELSE update(add(queue, Head(keys)), Tail(keys))

\* OrderedSet.pop( last ): the value and the remaining set
pop(queue, last) ==
    IF last
    THEN [value |-> queue[Len(queue)], rest |-> SubSeq(queue, 1, Len(queue) - 1)]
    ELSE [value |-> Head(queue), rest |-> Tail(queue)]

\* ------------------------------------------- refreshOptimizationsFromTags
\* mutant of OptionHolds: the Options tests are left out
OptionHoldsAlways(option) == option = option

\* the Options test of a rule
OptionHolds(option) ==
    CASE option = "none" -> TRUE
      [] option = "not shallMakeModule" -> ~shallMakeModule
      [] option = "not use_propagation" -> ~use_propagation
      [] option = "use_propagation" -> use_propagation
      [] option = "shallOptimizeStringExec" -> shallOptimizeStringExec

\* mutant of RuleFires: the Options test of the rule is left out
RuleFiresWithoutOption(i, tagset) == check(tagset, Rules[i].tags)

\* mutant of RuleFires: the test of the tags is left out
RuleFiresOnOption(i, tagset) == OptionHolds(Rules[i].option)

\* the if statement of rule i holds for the tags
RuleFires(i, tagset) == OptionHolds(Rules[i].option) /\ check(tagset, Rules[i].tags)

\* evaluating the name of the pass of rule i raises NameError
RuleRaises(i) == \E k \in DOMAIN Rules[i].passes : Rules[i].passes[k] \notin DefinedPasses

\* mutant of refreshFrom: the passes are appended, as to a list
RECURSIVE refreshFromAppending(_, _, _)
refreshFromAppending(i, queue, tagset) ==
    IF i > Len(Rules)
    THEN [queue |-> queue, tags |-> {}, raised |-> FALSE]
    ELSE IF ~RuleFires(i, tagset)
         THEN refreshFromAppending(i + 1, queue, tagset)
         ELSE IF RuleRaises(i)
              THEN [queue |-> queue, tags |-> tagset, raised |-> TRUE]
              ELSE refreshFromAppending(i + 1, queue \o Rules[i].passes, tagset)

\* mutant of refreshFrom: tags.clear() is left out
RECURSIVE refreshFromKeepingTags(_, _, _)
refreshFromKeepingTags(i, queue, tagset) ==
    IF i > Len(Rules)
    THEN [queue |-> queue, tags |-> tagset, raised |-> FALSE]
    ELSE IF ~RuleFires(i, tagset)
         THEN refreshFromKeepingTags(i + 1, queue, tagset)
         ELSE IF RuleRaises(i)
              THEN [queue |-> queue, tags |-> tagset, raised |-> TRUE]
              ELSE refreshFromKeepingTags(i + 1, update(queue, Rules[i].passes), tagset)

\* mutant of refreshFrom: the rules are an if/elif chain, the first that fires ends it
RECURSIVE refreshFromFirstMatch(_, _, _)
refreshFromFirstMatch(i, queue, tagset) ==
    IF i > Len(Rules)
    THEN [queue |-> queue, tags |-> {}, raised |-> FALSE]
    ELSE IF ~RuleFires(i, tagset)
         THEN refreshFromFirstMatch(i + 1, queue, tagset)
         ELSE IF RuleRaises(i)
              THEN [queue |-> queue, tags |-> tagset, raised |-> TRUE]
              ELSE [queue |-> update(queue, Rules[i].passes), tags |-> {}, raised |-> FALSE]

\* mutant of refreshFrom: the queue is built anew from the tags, what was
\* queued is dropped
RECURSIVE refreshFromRebuilding(_, _, _)
refreshFromRebuilding(i, queue, tagset) ==
    LET kept == IF i = 1 THEN << >> ELSE queue IN
    IF i > Len(Rules)
    THEN [queue |-> kept, tags |-> {}, raised |-> FALSE]
    ELSE IF ~RuleFires(i, tagset)
         THEN refreshFromRebuilding(i + 1, kept, tagset)
         ELSE IF RuleRaises(i)
              THEN [queue |-> kept, tags |-> tagset, raised |-> TRUE]
              ELSE refreshFromRebuilding(i + 1, update(kept, Rules[i].passes), tagset)

\* rules i .. Len(Rules) in order, then tags.clear(); a rule that fires and names an
\* undefined pass ends the refresh there with the tags as they were
RECURSIVE refreshFrom(_, _, _)
refreshFrom(i, queue, tagset) ==
    IF i > Len(Rules)
    THEN [queue |-> queue, tags |-> {}, raised |-> FALSE]
    ELSE IF ~RuleFires(i, tagset)
         THEN refreshFrom(i + 1, queue, tagset)
         ELSE IF RuleRaises(i)
              THEN [queue |-> queue, tags |-> tagset, raised |-> TRUE]
              ELSE refreshFrom(i + 1, update(queue, Rules[i].passes), tagset)

\* mutant of refreshOptimizationsFromTags: the first rule is applied to the
\* entry module only
refreshOptimizationsFromTagsOfEntry(queue, tagset) ==
    IF tree = main_module THEN refreshFrom(1, queue, tagset) ELSE refreshFrom(2, queue, tagset)

refreshOptimizationsFromTags(queue, tagset) == refreshFrom(1, queue, tagset)

\* ------------------------------------------------------------------- Init
\* the state before optimizeWhole is called, for every setting of the options
Start ==
    /\ use_propagation \in BOOLEAN
    /\ shallMakeModule \in BOOLEAN
    /\ shallOptimizeStringExec \in BOOLEAN
    /\ _progress \in BOOLEAN
    /\ check_all \in BOOLEAN
    /\ pc = "start"
    /\ caller = "none"
    /\ imported_modules \in SUBSET Modules
    /\ done_modules = {}
    /\ finished = FALSE
    /\ other_modules = {}
    /\ result = NoModule
    /\ tree = NoModule
    /\ optimizations_queue = << >>
    /\ tags = {}
    /\ next_optimization = NoPass
    /\ emitted_since = << >>
    /\ last_step = "start"
    /\ last_refresh = NoRefresh
    /\ new_in_sweep = {}
    /\ discovered = {}
    /\ calls = [m \in Modules |-> 0]
    /\ sweep_processed = FALSE
    /\ idle_sweeps = 0
    /\ printed = << >>

\* every pass emits finitely many tags
Init ==
    /\ Start
    /\ reemitting = NoPass
    /\ emit_budget = MaxEmits
    /\ emits_left = emit_budget

\* ----------------------------------------------------------- optimizeTree
\* optimizeTree is left, by return or by an exception: its locals are gone
Discard ==
    /\ optimizations_queue' = << >>
    /\ tags' = {}
    /\ next_optimization' = NoPass
    /\ emits_left' = emit_budget
    /\ emitted_since' = << >>
    /\ last_refresh' = NoRefresh

\* lines 78-82: a fresh queue and tag set, seeded with "new_code"
EnterTree ==
    /\ pc = "tree_enter"
    /\ optimizations_queue' = << >>
    /\ tags' = onSignal({}, { "new_code" })
    /\ next_optimization' = NoPass
    /\ emits_left' = emit_budget
    /\ emitted_since' = << >>
    /\ last_refresh' = NoRefresh
    /\ last_step' = "enter"
    /\ pc' = "refresh0"
    /\ UNCHANGED << config_vars, caller, whole_vars, tree, new_in_sweep, discovered,
                    driver_history >>

\* one call of refreshOptimizationsFromTags, from position at
DoRefresh(at) ==
    LET r == refreshOptimizationsFromTags(optimizations_queue, tags) IN
    /\ pc = at
    /\ optimizations_queue' = r.queue
    /\ tags' = r.tags
    /\ emitted_since' = IF r.raised THEN emitted_since ELSE << >>
    /\ last_refresh' = [before |-> optimizations_queue, seen |-> tags, initial |-> at = "refresh0",
                        emitted |-> emitted_since]
    /\ last_step' = IF r.raised THEN "NameError" ELSE "refresh"
    /\ pc' = IF r.raised THEN "raised" ELSE "loop"
    /\ UNCHANGED << config_vars, caller, whole_vars, tree, next_optimization,
                    emits_left, new_in_sweep, discovered,
                    driver_history >>

\* line 137
InitialRefresh == DoRefresh("refresh0")

\* line 147
LoopRefresh == DoRefresh("refresh")

\* mutant of PopFront: the front is read and stays in the queue
PopFrontPeeking ==
    /\ pc = "loop"
    /\ optimizations_queue # << >>
    /\ next_optimization' = Head(optimizations_queue)
    /\ last_step' = "pop"
    /\ pc' = "execute"
    /\ UNCHANGED << config_vars, caller, whole_vars, tree, optimizations_queue, tags,
                    history_vars, driver_history >>

\* mutant of PopFront: pop() without last = False takes the back
PopBack ==
    /\ pc = "loop"
    /\ optimizations_queue # << >>
    /\ next_optimization' = pop(optimizations_queue, TRUE).value
    /\ optimizations_queue' = pop(optimizations_queue, TRUE).rest
    /\ last_step' = "pop"
    /\ pc' = "execute"
    /\ UNCHANGED << config_vars, caller, whole_vars, tree, tags, history_vars,
                    driver_history >>

\* lines 139-140: the loop test and the pop of the front
PopFront ==
    /\ pc = "loop"
    /\ optimizations_queue # << >>
    /\ next_optimization' = pop(optimizations_queue, FALSE).value
    /\ optimizations_queue' = pop(optimizations_queue, FALSE).rest
    /\ last_step' = "pop"
    /\ pc' = "execute"
    /\ UNCHANGED << config_vars, caller, whole_vars, tree, tags, history_vars,
                    driver_history >>

\* the tag sets one pass execution may emit
EmitSets == { E \in SUBSET Tags : Cardinality(E) <= emits_left }

\* the sets of modules the pass may register in TreeRecursion.imported_modules
\* while it runs: the recursion pass finds at most one new module per run
Discoveries(visitor) ==
    IF visitor = "ModuleRecursionVisitor"
    THEN { S \in SUBSET (Modules \ imported_modules) : Cardinality(S) <= 1 }
    ELSE { {} }

\* the tags the pass emits whenever it runs: those of its own rule, if it is
\* the pass that does not exhaust the condition that made it eligible
Reemitted(visitor) ==
    IF visitor = reemitting THEN RuleTags(RuleOf(visitor)) ELSE {}

\* mutant of ExecutePass: the for loop of the sweep walks the live registry, a
\* module registered by the pass joins the list being walked
ExecutePassLiveWalk ==
    /\ pc = "execute"
    /\ \E E \in EmitSets :
         /\ tags' = onSignal(tags, E \cup Reemitted(next_optimization))
         /\ emits_left' = emits_left - Cardinality(E)
         /\ emitted_since' = IF E \cup Reemitted(next_optimization) = {}
                             THEN emitted_since
                             ELSE Append(emitted_since, E \cup Reemitted(next_optimization))
    /\ \E found \in Discoveries(next_optimization) :
         /\ imported_modules' = imported_modules \cup found
         /\ new_in_sweep' = new_in_sweep \cup found
         /\ other_modules' = other_modules \cup found
         /\ discovered' = IF caller = "sweep" THEN discovered \cup found ELSE discovered
    /\ last_step' = "execute"
    /\ pc' = "check"
    /\ UNCHANGED << config_vars, caller, done_modules, finished, result,
                    tree, optimizations_queue, next_optimization, last_refresh,
                    driver_history >>

\* line 144: the pass runs; it may emit tags through on_signal, and the
\* recursion pass may register a module it discovered
ExecutePass ==
    /\ pc = "execute"
    /\ \E E \in EmitSets :
         /\ tags' = onSignal(tags, E \cup Reemitted(next_optimization))
         /\ emits_left' = emits_left - Cardinality(E)
         /\ emitted_since' = IF E \cup Reemitted(next_optimization) = {}
                             THEN emitted_since
                             ELSE Append(emitted_since, E \cup Reemitted(next_optimization))
    /\ \E found \in Discoveries(next_optimization) :
         /\ imported_modules' = imported_modules \cup found
         /\ new_in_sweep' = new_in_sweep \cup found
         /\ discovered' = IF caller = "sweep" THEN discovered \cup found ELSE discovered
    /\ last_step' = "execute"
    /\ pc' = "check"
    /\ UNCHANGED << config_vars, caller, done_modules, finished, other_modules, result,
                    tree, optimizations_queue, next_optimization, last_refresh,
                    driver_history >>

\* mutant of PassRaises: the loop catches the exception and goes on
PassRaisesCaught ==
    /\ pc = "execute"
    /\ last_step' = "pass raised"
    /\ pc' = "check"
    /\ UNCHANGED << config_vars, caller, whole_vars, tree_vars, history_vars, driver_history >>

\* line 144: the pass raises; nothing catches it
PassRaises ==
    /\ pc = "execute"
    /\ last_step' = "pass raised"
    /\ pc' = "raised"
    /\ Discard
    /\ UNCHANGED << config_vars, caller, whole_vars, tree, new_in_sweep, discovered,
                    driver_history >>

\* mutant of ShallRefresh: and for or
ShallRefreshBoth == optimizations_queue = << >> /\ check(tags, << "new_code" >>)

\* mutant of ShallRefresh: "not optimizations_queue or" is left out
ShallRefreshOnNewCode == check(tags, << "new_code" >>)

\* line 146: not optimizations_queue or tags.check( "new_code" )
ShallRefresh == optimizations_queue = << >> \/ check(tags, << "new_code" >>)

\* line 146, condition true
DecideRefresh ==
    /\ pc = "check"
    /\ ShallRefresh
    /\ last_step' = "decide"
    /\ pc' = "refresh"
    /\ UNCHANGED << config_vars, caller, whole_vars, tree_vars, history_vars,
                    driver_history >>

\* mutant of SkipRefresh: the TagSet is cleared when the refresh is skipped
SkipRefreshClearing ==
    /\ pc = "check"
    /\ ~ShallRefresh
    /\ tags' = {}
    /\ last_step' = "skip"
    /\ pc' = "loop"
    /\ UNCHANGED << config_vars, caller, whole_vars, tree, optimizations_queue,
                    next_optimization, history_vars, driver_history >>

\* line 146, condition false
SkipRefresh ==
    /\ pc = "check"
    /\ ~ShallRefresh
    /\ last_step' = "skip"
    /\ pc' = "loop"
    /\ UNCHANGED << config_vars, caller, whole_vars, tree_vars, history_vars,
                    driver_history >>

\* mutant of ReturnTree: an iteration cap, the loop is also left once a refresh
\* has been made in it
ReturnTreeCapped ==
    /\ pc = "loop"
    /\ optimizations_queue = << >> \/ (last_refresh # NoRefresh /\ ~last_refresh.initial)
    /\ last_step' = "return"
    /\ pc' = "tree_return"
    /\ UNCHANGED << config_vars, caller, whole_vars, tree_vars, history_vars, driver_history >>

\* lines 139, 149: the queue is empty, the tree is returned
ReturnTree ==
    /\ pc = "loop"
    /\ optimizations_queue = << >>
    /\ last_step' = "return"
    /\ pc' = "tree_return"
    /\ UNCHANGED << config_vars, caller, whole_vars, tree_vars, history_vars,
                    driver_history >>

\* ---------------------------------------------------------- optimizeWhole
\* lines 155-157: the call for the entry module
StartMain ==
    /\ pc = "start"
    /\ done_modules' = {}
    /\ tree' = main_module
    /\ caller' = "main"
    /\ last_step' = "call"
    /\ pc' = "tree_enter"
    /\ calls' = [calls EXCEPT ![main_module] = @ + 1]
    /\ UNCHANGED << config_vars, imported_modules, finished, other_modules, result,
                    optimizations_queue, tags, next_optimization, history_vars,
                    sweep_processed, idle_sweeps, printed >>

\* mutant of MainDone: finished starts as True
MainDoneFinished ==
    /\ pc = "tree_return"
    /\ caller = "main"
    /\ result' = tree
    /\ done_modules' = done_modules \cup { main_module }
    /\ finished' = TRUE
    /\ caller' = "none"
    /\ last_step' = "main done"
    /\ pc' = "while"
    /\ Discard
    /\ tree' = NoModule
    /\ printed' = IF _progress THEN << Cardinality(imported_modules) >> ELSE printed
    /\ UNCHANGED << config_vars, imported_modules, other_modules, new_in_sweep, discovered,
                    calls, sweep_processed, idle_sweeps >>

\* mutant of MainDone: done_modules.add( main_module ) is left out
MainDoneNotMarked ==
    /\ pc = "tree_return"
    /\ caller = "main"
    /\ result' = tree
    /\ done_modules' = done_modules
    /\ finished' = FALSE
    /\ caller' = "none"
    /\ last_step' = "main done"
    /\ pc' = "while"
    /\ Discard
    /\ tree' = NoModule
    /\ printed' = IF _progress THEN << Cardinality(imported_modules) >> ELSE printed
    /\ UNCHANGED << config_vars, imported_modules, other_modules, new_in_sweep, discovered,
                    calls, sweep_processed, idle_sweeps >>

\* lines 157-163: the entry module's tree is the result, the module is done
MainDone ==
    /\ pc = "tree_return"
    /\ caller = "main"
    /\ result' = tree
    /\ done_modules' = done_modules \cup { main_module }
    /\ finished' = FALSE
    /\ caller' = "none"
    /\ last_step' = "main done"
    /\ pc' = "while"
    /\ Discard
    /\ tree' = NoModule
    /\ printed' = IF _progress THEN << Cardinality(imported_modules) >> ELSE printed
    /\ UNCHANGED << config_vars, imported_modules, other_modules, new_in_sweep, discovered,
                    calls, sweep_processed, idle_sweeps >>

\* mutant of SweepStart: finished = True at the top of the while body is left out
SweepStartKeepingFinished ==
    /\ pc = "while"
    /\ ~finished
    /\ finished' = finished
    /\ other_modules' = imported_modules
    /\ new_in_sweep' = {}
    /\ last_step' = "sweep"
    /\ pc' = "for"
    /\ sweep_processed' = FALSE
    /\ UNCHANGED << config_vars, caller, imported_modules, done_modules, result, tree_vars,
                    emits_left, emitted_since, last_refresh, discovered,
                    calls, idle_sweeps, printed >>

\* lines 165-168: a sweep begins over list( imported_modules.values() )
SweepStart ==
    /\ pc = "while"
    /\ ~finished
    /\ finished' = TRUE
    /\ other_modules' = imported_modules
    /\ new_in_sweep' = {}
    /\ last_step' = "sweep"
    /\ pc' = "for"
    /\ sweep_processed' = FALSE
    /\ UNCHANGED << config_vars, caller, imported_modules, done_modules, result, tree_vars,
                    emits_left, emitted_since, last_refresh, discovered,
                    calls, idle_sweeps, printed >>

\* mutant of ForCall: the test "not in done_modules" is left out
ForCallAnyway ==
    /\ pc = "for"
    /\ \E other_module \in other_modules :
         /\ other_modules' = other_modules \ { other_module }
         /\ tree' = other_module
         /\ calls' = [calls EXCEPT ![other_module] = @ + 1]
    /\ sweep_processed' = TRUE
    /\ caller' = "sweep"
    /\ last_step' = "call"
    /\ pc' = "tree_enter"
    /\ UNCHANGED << config_vars, imported_modules, done_modules, finished, result,
                    optimizations_queue, tags, next_optimization, history_vars,
                    idle_sweeps, printed >>

\* lines 168-170: the next module of the list is not done, optimizeTree is called
ForCall ==
    /\ pc = "for"
    /\ \E other_module \in other_modules :
         /\ other_module \notin done_modules
         /\ other_modules' = other_modules \ { other_module }
         /\ tree' = other_module
         /\ calls' = [calls EXCEPT ![other_module] = @ + 1]
    /\ sweep_processed' = TRUE
    /\ caller' = "sweep"
    /\ last_step' = "call"
    /\ pc' = "tree_enter"
    /\ UNCHANGED << config_vars, imported_modules, done_modules, finished, result,
                    optimizations_queue, tags, next_optimization, history_vars,
                    idle_sweeps, printed >>

\* lines 168-169: the next module of the list is done already
ForSkip ==
    /\ pc = "for"
    /\ \E other_module \in other_modules :
         /\ other_module \in done_modules
         /\ other_modules' = other_modules \ { other_module }
    /\ last_step' = "for skip"
    /\ UNCHANGED << config_vars, pc, caller, imported_modules, done_modules, finished, result,
                    tree_vars, history_vars,
                    driver_history >>

\* mutant of OtherDone: the value of the call of line 170 is assigned to result
OtherDoneAsResult ==
    /\ pc = "tree_return"
    /\ caller = "sweep"
    /\ done_modules' = done_modules \cup { tree }
    /\ finished' = FALSE
    /\ result' = tree
    /\ caller' = "none"
    /\ last_step' = "other done"
    /\ pc' = "for"
    /\ Discard
    /\ tree' = NoModule
    /\ printed' = IF _progress
                THEN << Cardinality(imported_modules) - Cardinality(done_modules') >>
                ELSE printed
    /\ UNCHANGED << config_vars, imported_modules, other_modules, new_in_sweep, discovered,
                    calls, sweep_processed, idle_sweeps >>

\* mutant of OtherDone: finished = False is left out
OtherDoneWithoutProgress ==
    /\ pc = "tree_return"
    /\ caller = "sweep"
    /\ done_modules' = done_modules \cup { tree }
    /\ finished' = finished
    /\ caller' = "none"
    /\ last_step' = "other done"
    /\ pc' = "for"
    /\ Discard
    /\ tree' = NoModule
    /\ printed' = IF _progress
                THEN << Cardinality(imported_modules) - Cardinality(done_modules') >>
                ELSE printed
    /\ UNCHANGED << config_vars, imported_modules, other_modules, result, new_in_sweep, discovered,
                    calls, sweep_processed, idle_sweeps >>

\* lines 172-177: the module is done, the sweep made progress
OtherDone ==
    /\ pc = "tree_return"
    /\ caller = "sweep"
    /\ done_modules' = done_modules \cup { tree }
    /\ finished' = FALSE
    /\ caller' = "none"
    /\ last_step' = "other done"
    /\ pc' = "for"
    /\ Discard
    /\ tree' = NoModule
    /\ printed' = IF _progress
                THEN << Cardinality(imported_modules) - Cardinality(done_modules') >>
                ELSE printed
    /\ UNCHANGED << config_vars, imported_modules, other_modules, result, new_in_sweep, discovered,
                    calls, sweep_processed, idle_sweeps >>

\* line 168: the list is exhausted
ForEnd ==
    /\ pc = "for"
    /\ other_modules = {}
    /\ last_step' = "for end"
    /\ pc' = "while"
    /\ idle_sweeps' = IF sweep_processed THEN idle_sweeps ELSE idle_sweeps + 1
    /\ UNCHANGED << config_vars, caller, whole_vars, tree_vars, history_vars,
                    calls, sweep_processed, printed >>

\* lines 165, 179
ReturnWhole ==
    /\ pc = "while"
    /\ finished
    /\ last_step' = "returned"
    /\ pc' = "returned"
    /\ UNCHANGED << config_vars, caller, whole_vars, tree_vars, history_vars,
                    driver_history >>

Next ==
    \/ StartMain
    \/ EnterTree
    \/ InitialRefresh
    \/ PopFront
    \/ ExecutePass
    \/ PassRaises
    \/ DecideRefresh
    \/ LoopRefresh
    \/ SkipRefresh
    \/ ReturnTree
    \/ MainDone
    \/ SweepStart
    \/ ForCall
    \/ ForSkip
    \/ OtherDone
    \/ ForEnd
    \/ ReturnWhole

Spec == Init /\ [][Next]_vars

\* one pass emits the tags of its own rule every time it runs; the registry
\* holds one module besides the entry module, the progress display is off
InitLoop ==
    /\ Start
    /\ reemitting \in DefinedPasses
    /\ emit_budget = MaxEmits
    /\ emits_left = emit_budget
    /\ imported_modules = { main_module + 1 }
    /\ ~_progress

\* the passes of one run emit one tag more than in Spec, so that two passes can
\* emit between two refreshes; the registry is empty at the start, the progress
\* display is off, modules are recursed into and exec strings are left alone
InitAccumulate ==
    /\ Start
    /\ ~shallMakeModule
    /\ ~shallOptimizeStringExec
    /\ reemitting = NoPass
    /\ emit_budget = MaxEmits + 1
    /\ emits_left = emit_budget
    /\ imported_modules = {}
    /\ ~_progress

SpecAccumulate == InitAccumulate /\ [][Next]_vars

SpecLoop == InitLoop /\ [][Next]_vars

\* --------------------------------- refreshOptimizationsFromTags on its own
\* refreshOptimizationsFromTags is a function of the queue, the tag set and the
\* options: SpecRefresh applies it once to every tag set and every setting of
\* the options, from the empty queue (a refresh of a queue that is not empty
\* is part of Spec).
InitRefresh ==
    /\ optimizations_queue = << >>
    /\ tags \in SUBSET Tags
    /\ use_propagation \in BOOLEAN
    /\ shallMakeModule \in BOOLEAN
    /\ shallOptimizeStringExec \in BOOLEAN
    /\ _progress \in BOOLEAN
    /\ check_all \in BOOLEAN
    /\ reemitting = NoPass
    /\ emit_budget = MaxEmits
    /\ emitted_since = IF tags = {} THEN << >> ELSE << tags >>
    /\ pc = "refresh"
    /\ caller = "main"
    /\ imported_modules = {}
    /\ done_modules = {}
    /\ finished = FALSE
    /\ other_modules = {}
    /\ result = NoModule
    /\ tree = main_module
    /\ next_optimization = NoPass
    /\ emits_left = 0
    /\ last_step = "decide"
    /\ last_refresh = NoRefresh
    /\ new_in_sweep = {}
    /\ discovered = {}
    /\ calls = [m \in Modules |-> IF m = main_module THEN 1 ELSE 0]
    /\ sweep_processed = FALSE
    /\ idle_sweeps = 0
    /\ printed = << >>

SpecRefresh == InitRefresh /\ [][LoopRefresh]_vars

\* ------------------------------------------------------------------ claims
IsDuplicateFree(queue) ==
    \A i, j \in DOMAIN queue : i # j => queue[i] # queue[j]

\* the passes of the queue
Queued == Range(optimizations_queue)

TreePositions == { "tree_enter", "refresh0", "loop", "execute", "check", "refresh", "tree_return" }

\* the passes of the rules whose option test holds
ConfiguredPasses ==
    UNION { Range(Rules[i].passes) : i \in { j \in DOMAIN Rules : OptionHolds(Rules[j].option) } }

\* C2: the initial refresh, made with the TagSet seeded with "new_code", has
\* enqueued every pass of the rule table whose option test holds (stated under
\* the reading of TagSet.check that favours it: one present tag suffices).
C2_SeedEnqueuesAllSteps ==
    (~check_all /\ last_step = "refresh" /\ last_refresh.initial)
        => ConfiguredPasses \subseteq Queued

\* C3: the step after the execution of a pass goes to the refresh if and only if
\* the queue is empty or "new_code" is in the TagSet; otherwise it goes back to
\* the loop test with queue and tags as they are, and the step from the loop test
\* of a queue that is not empty is the pop of the next pass.
C3_RefreshIffEmptyOrNewCode ==
    [][ /\ pc = "check" =>
            IF optimizations_queue = << >> \/ "new_code" \in tags
            THEN pc' = "refresh"
            ELSE /\ pc' = "loop"
                 /\ optimizations_queue' = optimizations_queue
                 /\ tags' = tags
        /\ (pc = "loop" /\ optimizations_queue # << >>) =>
            /\ pc' = "execute"
            /\ tags' = tags
        /\ pc = "refresh" => last_step = "decide"
      ]_vars

\* C3 witness: a pass has executed, passes are still queued, "new_code" is not in
\* the TagSet but another tag is, and the refresh was skipped.
C3_Witness ==
    /\ last_step = "skip"
    /\ pc = "loop"
    /\ optimizations_queue # << >>
    /\ tags # {}
    /\ "new_code" \notin tags

\* C4: the queue never holds a pass twice, and so never more passes than the
\* rule table names.
C4_NoPassTwice ==
    /\ IsDuplicateFree(optimizations_queue)
    /\ Len(optimizations_queue) <= Cardinality(Passes)

\* C4 witness: a refresh of a queue that was not empty has re-added passes that
\* had been popped, next to passes that were still queued.
C4_Witness ==
    /\ last_step = "refresh"
    /\ last_refresh.before # << >>
    /\ Len(optimizations_queue) > Len(last_refresh.before)
    /\ \E i \in DOMAIN Rules :
           /\ RuleFires(i, last_refresh.seen)
           /\ Range(Rules[i].passes) \subseteq Range(last_refresh.before)

\* C5: adding a pass that is queued leaves the queue as it is, and adding any
\* pass twice gives the queue that adding it once gives.
C5_AddIdempotent ==
    \A key \in DefinedPasses :
        /\ key \in Queued => add(optimizations_queue, key) = optimizations_queue
        /\ add(add(optimizations_queue, key), key) = add(optimizations_queue, key)
        /\ key \notin Queued =>
               add(optimizations_queue, key) = optimizations_queue \o << key >>

\* C5 witness: a refresh has added again a pass that was queued already, and the
\* pass is where it was.
C5_Witness ==
    /\ last_step = "refresh"
    /\ \E i \in DOMAIN Rules : \E n \in DOMAIN last_refresh.before :
           /\ RuleFires(i, last_refresh.seen)
           /\ last_refresh.before[n] = Rules[i].passes[1]
           /\ optimizations_queue[n] = Rules[i].passes[1]

IsPrefix(s, t) == Len(s) <= Len(t) /\ SubSeq(t, 1, Len(s)) = s

\* C6: the pass popped is the front of the queue and the rest keeps its order,
\* and a refresh puts what it adds behind the passes queued before it: the pass
\* executed next is always the one that was inserted first.
C6_PopsInInsertionOrder ==
    [][ /\ (pc = "loop" /\ pc' = "execute") =>
            /\ next_optimization' = Head(optimizations_queue)
            /\ optimizations_queue' = Tail(optimizations_queue)
        /\ (pc \in { "refresh0", "refresh" } /\ pc' = "loop") =>
            IsPrefix(optimizations_queue, optimizations_queue')
      ]_vars

\* C6 witness: a refresh added passes behind queued ones, and the pass popped
\* after it is one of those queued before the refresh.
C6_Witness ==
    /\ last_step = "pop"
    /\ Len(last_refresh.before) > 0
    /\ next_optimization = last_refresh.before[1]
    /\ Len(optimizations_queue) >= Len(last_refresh.before)

\* C7: a refresh that returns leaves the TagSet empty; a step of optimizeTree
\* that takes a tag out of the TagSet is such a refresh, and every rule that
\* fires for the tags the refresh started from has its passes in the queue.
C7_TagsClearedOnlyByRefresh ==
    [][ /\ (pc \in { "refresh0", "refresh" } /\ pc' = "loop") => tags' = {}
        /\ (pc' \in TreePositions /\ ~(tags \subseteq tags')) =>
            /\ pc \in { "refresh0", "refresh" }
            /\ tags' = {}
            /\ \A i \in DOMAIN Rules :
                   RuleFires(i, tags) => Range(Rules[i].passes) \subseteq Range(optimizations_queue')
      ]_vars

\* C7 witness: a refresh started from a TagSet of a tag emitted by a pass and
\* left the TagSet empty.
C7_Witness ==
    /\ last_step = "refresh"
    /\ ~last_refresh.initial
    /\ last_refresh.seen # {}
    /\ "new_code" \notin last_refresh.seen
    /\ tags = {}

\* position of a pass in the rule table: its rule, then its place in the group
PlaceInRule(visitor) ==
    CHOOSE k \in DOMAIN Rules[RuleOf(visitor)].passes : Rules[RuleOf(visitor)].passes[k] = visitor

Before(a, b) ==
    \/ RuleOf(a) < RuleOf(b)
    \/ RuleOf(a) = RuleOf(b) /\ PlaceInRule(a) < PlaceInRule(b)

\* C8: after a refresh of the empty queue the queue holds the passes of the
\* rules that fire for the tags and options, no others, each once, in the
\* order of the rule table.
C8_AllMatchingRulesInOrder ==
    (last_step = "refresh" /\ last_refresh.before = << >>) =>
        /\ Queued = UNION { Range(Rules[i].passes) :
                              i \in { j \in DOMAIN Rules : RuleFires(j, last_refresh.seen) } }
        /\ \A m, n \in DOMAIN optimizations_queue :
               m < n => Before(optimizations_queue[m], optimizations_queue[n])

\* C8 witness: rules at the top, in the middle and at the bottom of the table
\* have fired in one refresh, and a rule between them has not.
C8_Witness ==
    /\ last_step = "refresh"
    /\ last_refresh.before = << >>
    /\ "VariableClosureLookupVisitorPhase1" \in Queued
    /\ "ModuleVariableReadOnlyVisitor" \in Queued
    /\ "OptimizeRaisesVisitor" \in Queued
    /\ "ModuleRecursionVisitor" \notin Queued
    /\ "MaybeLocalVariableReductionVisitor" \in Queued

\* C9: when optimizeWhole has returned, every module of the registry is done.
C9_AllRegisteredDone ==
    pc = "returned" => imported_modules \subseteq done_modules

\* C9 witness: optimizeWhole has returned with the entry module and two other
\* modules, one registered from the start and one registered in a sweep, done.
C9_Witness ==
    /\ pc = "returned"
    /\ Cardinality(done_modules) = 3
    /\ Cardinality(discovered) = 1
    /\ main_module \notin imported_modules
    /\ imported_modules = done_modules \ { main_module }

\* C10: a module registered by a pass is not processed in the sweep that is
\* running then; after the run that registered it another sweep follows, and
\* optimizeWhole does not return before the module is done.
C10_LateDiscovery ==
    /\ (caller = "sweep" /\ pc \in TreePositions) => tree \notin new_in_sweep
    /\ (pc \in { "while", "for" } /\ ~(new_in_sweep \subseteq done_modules)) => ~finished
    /\ pc = "returned" => (new_in_sweep = {} /\ discovered \subseteq done_modules)

\* C10 witness: a module registered while a sweep was processing another module
\* is being processed, in a later sweep.
C10_Witness ==
    /\ caller = "sweep"
    /\ pc = "execute"
    /\ new_in_sweep = {}
    /\ tree \in discovered

\* C11: optimizeWhole returns only after a sweep that called optimizeTree for no
\* module, and there is at most one such sweep: at the test of the while loop
\* finished is true exactly when the sweep just completed processed nothing;
\* a sweep over a registry whose modules are all done processes none of them.
C11_OneIdleSweepThenReturn ==
    /\ idle_sweeps <= 1
    /\ pc = "returned" => (idle_sweeps = 1 /\ ~sweep_processed)
    /\ pc = "while" => (finished <=> (idle_sweeps = 1 /\ ~sweep_processed))
    /\ (pc = "for" /\ imported_modules \subseteq done_modules) =>
           other_modules \subseteq done_modules

\* C11 witness: optimizeWhole has returned after sweeps that processed modules,
\* one of them registered during a sweep, and one sweep that processed none.
C11_Witness ==
    /\ pc = "returned"
    /\ idle_sweeps = 1
    /\ discovered # {}
    /\ Cardinality(done_modules) = MaxOtherModules + 1

\* C12: optimizeTree is called at most once for a module, the entry module
\* included, and only for a module that is not done; done_modules only grows,
\* and when it grows it gains exactly the module whose optimizeTree call has
\* just returned.
C12_EachModuleDoneOnce ==
    [][ /\ \A m \in Modules : calls'[m] <= 1
        /\ done_modules \subseteq done_modules'
        /\ done_modules' # done_modules =>
               /\ pc = "tree_return"
               /\ tree \notin done_modules
               /\ calls[tree] = 1
               /\ done_modules' = done_modules \cup { tree }
        /\ (pc' = "tree_enter" /\ pc # "tree_enter") => tree' \notin done_modules
      ]_vars

\* C12 witness: optimizeWhole has returned, the entry module is in the registry
\* too, and every module has been processed exactly once.
C12_Witness ==
    /\ pc = "returned"
    /\ main_module \in imported_modules
    /\ done_modules = Modules
    /\ \A m \in Modules : calls[m] = 1

\* the statements of optimizeTree before the loop, last to first
EntryRank ==
    CASE pc = "tree_enter" -> 2
      [] pc = "refresh0" -> 1
      [] OTHER -> 0

\* the statements of one round of the loop of optimizeTree, last to first
RoundRank ==
    CASE pc = "execute" -> 4
      [] pc = "check" -> 3
      [] pc = "refresh" -> 2
      [] pc = "loop" -> 1
      [] OTHER -> 0

\* what is left to do in a run of optimizeTree, in lexicographic order: the
\* statements before the loop, the tags still to be emitted, a TagSet still to
\* be consumed, the passes queued, the statements of the round
Variant ==
    << EntryRank, emits_left, IF tags = {} THEN 0 ELSE 1, Len(optimizations_queue), RoundRank >>

Less(a, b) ==
    \E k \in DOMAIN a : a[k] < b[k] /\ \A j \in 1 .. (k - 1) : a[j] = b[j]

\* every statement of optimizeTree decreases the variant: with finitely many
\* tags emitted, a run of optimizeTree ends, by its return or by an exception
VariantDecreases ==
    [][ (pc \in TreePositions /\ pc' \in TreePositions /\ pc # "tree_return") =>
            Less(Variant', Variant) ]_vars

\* C13: a run of optimizeTree in which the passes emit finitely many tags and
\* no pass raises comes to its return: whenever optimizeTree is left by an
\* exception, a pass has raised it.
C13_ReturnsWhenEmissionsFinite ==
    pc = "raised" => last_step = "pass raised"

\* C14: when a pass raises, optimizeTree and optimizeWhole are left at once: no
\* statement of either is executed after it, so no pass runs for this or any
\* other module and optimizeWhole does not return; the module being optimized
\* is not added to done_modules.
C14_PassFailureIsFatal ==
    [][ /\ last_step # "pass raised"
        /\ pc # "raised"
        /\ last_step' = "pass raised" =>
               /\ pc = "execute"
               /\ pc' = "raised"
               /\ tree' = tree
               /\ done_modules' = done_modules
               /\ tree \notin done_modules
               /\ result' = result
      ]_vars

\* C14 witness: a pass raised in a sweep while the entry module was done and a
\* module other than the one being optimized was still pending.
C14_Witness ==
    /\ last_step = "pass raised"
    /\ pc = "raised"
    /\ caller = "sweep"
    /\ main_module \in done_modules
    /\ (imported_modules \ done_modules) \ { tree } # {}

\* C15: whatever the options, a refresh of the empty queue with the empty TagSet
\* gives the empty queue and raises nothing; after such a refresh in the loop
\* of optimizeTree no pass is popped or executed any more: the loop test fails
\* and the tree is returned.
C15_EmptyRefreshEndsLoop ==
    /\ refreshOptimizationsFromTags(<< >>, {}) = [queue |-> << >>, tags |-> {}, raised |-> FALSE]
    /\ ( /\ pc \in { "loop", "execute", "check", "refresh", "tree_return" }
         /\ last_refresh.before = << >>
         /\ last_refresh.seen = {} )
       => /\ pc \in { "loop", "tree_return" }
          /\ optimizations_queue = << >>
          /\ tags = {}

\* C15 witness: the last pass of the queue ran and emitted nothing, the refresh
\* that followed started from the empty queue and the empty TagSet, and
\* optimizeTree has returned.
C15_Witness ==
    /\ pc = "tree_return"
    /\ last_step = "return"
    /\ ~last_refresh.initial
    /\ last_refresh.before = << >>
    /\ last_refresh.seen = {}

\* the passes of the rule table from rule i on, top to bottom
RECURSIVE TablePasses(_)
TablePasses(i) ==
    IF i > Len(Rules) THEN << >> ELSE Rules[i].passes \o TablePasses(i + 1)

\* the queue determined by a queue, a TagSet and the options alone: the queue,
\* then the passes not in it whose rule fires, in the order of the table
QueueDeterminedBy(queue, tagset) ==
    LET fresh(visitor) == visitor \notin Range(queue) /\ RuleFires(RuleOf(visitor), tagset)
    IN  queue \o SelectSeq(TablePasses(1), fresh)

\* C16: the queue a refresh leaves is a function of the queue and the TagSet it
\* started from and of the options, and of nothing else: whatever the module,
\* the caller and the passes run before, a refresh that returns leaves the
\* queue QueueDeterminedBy gives for these, and the empty TagSet.  Two
\* refreshes from the same queue, TagSet and options so leave the same queue.
C16_RefreshDeterminedByInputs ==
    last_step = "refresh" =>
        /\ optimizations_queue = QueueDeterminedBy(last_refresh.before, last_refresh.seen)
        /\ tags = {}

\* C16 witness: a refresh in the loop, for a module of a sweep, started from the
\* TagSet { "new_code" } the initial refresh of every module starts from, with
\* passes queued, and added passes.
C16_Witness ==
    /\ last_step = "refresh"
    /\ caller = "sweep"
    /\ ~last_refresh.initial
    /\ last_refresh.seen = { "new_code" }
    /\ last_refresh.before # << >>
    /\ Len(optimizations_queue) > Len(last_refresh.before)

\* C17: with the progress display on, the count printed when a module has
\* completed (the entry module, line 161, or a module of a sweep, line 175) is
\* the number of modules of the registry that are not in done_modules then, and
\* it is not negative.
C17_ProgressCountIsRemaining ==
    (_progress /\ last_step \in { "main done", "other done" }) =>
        /\ printed = << Cardinality(imported_modules \ done_modules) >>
        /\ printed[1] >= 0

\* C18: the loop test of optimizeTree finds the queue empty only right after a
\* refresh that started from the empty queue and added nothing, and that left
\* the TagSet empty; optimizeTree returns from there, with the queue and the
\* TagSet empty, so no tag a pass emitted is left in the TagSet at the return.
C18_ReturnsOnlyWhenTerminal ==
    /\ (pc = "loop" /\ optimizations_queue = << >>) =>
           /\ last_step = "refresh"
           /\ last_refresh.before = << >>
           /\ tags = {}
    /\ pc = "tree_return" =>
           /\ last_step = "return"
           /\ optimizations_queue = << >>
           /\ last_refresh.before = << >>
           /\ tags = {}

\* C18 witness: optimizeTree has returned after a pass emitted a tag and the last
\* refresh consumed a TagSet that was not empty and added nothing.
C18_Witness ==
    /\ pc = "tree_return"
    /\ emits_left < MaxEmits
    /\ ~last_refresh.initial
    /\ last_refresh.seen # {}
    /\ optimizations_queue = << >>

\* the passes that are in the queue or have been popped from it to be executed
QueuedOrRunning == Queued \cup { next_optimization }

\* C20: a pass of a rule whose Options test is false is never in the queue and
\* never popped for execution: not ModuleRecursionVisitor when shallMakeModule
\* is on; none of OptimizeOperationVisitor, StatementSequencesCleanupVisitor,
\* ReplaceBuiltinsCriticalVisitor, ReplaceBuiltinsOptionalVisitor and
\* PrecomputeBuiltinsVisitor when value propagation is on; not
\* ValuePropagationVisitor when it is off; OptimizeExecVisitor only when
\* shallOptimizeStringExec is on.
C20_FalseOptionNeverContributes ==
    /\ shallMakeModule => "ModuleRecursionVisitor" \notin QueuedOrRunning
    /\ use_propagation =>
           QueuedOrRunning \cap { "OptimizeOperationVisitor", "StatementSequencesCleanupVisitor",
                                  "ReplaceBuiltinsCriticalVisitor", "ReplaceBuiltinsOptionalVisitor",
                                  "PrecomputeBuiltinsVisitor" } = {}
    /\ ~use_propagation => "ValuePropagationVisitor" \notin QueuedOrRunning
    /\ "OptimizeExecVisitor" \in QueuedOrRunning => shallOptimizeStringExec
    /\ \A i \in DOMAIN Rules :
           ~OptionHolds(Rules[i].option) => Range(Rules[i].passes) \cap QueuedOrRunning = {}

\* C20 witness: with shallMakeModule on and string exec optimization off, a
\* refresh in the loop started from the TagSet { "new_constant" }, for which
\* the tag tests of the rules of ModuleRecursionVisitor and OptimizeExecVisitor
\* hold, and added the passes of other rules.
C20_Witness ==
    /\ shallMakeModule
    /\ ~shallOptimizeStringExec
    /\ last_step = "refresh"
    /\ last_refresh.seen = { "new_constant" }
    /\ \A i \in { 2, 14 } : check(last_refresh.seen, Rules[i].tags)
    /\ "OptimizeFunctionCallArgsVisitor" \in Queued

\* the pass that re-emits the tags of its rule is queued, is about to run, or
\* the tags of its rule (the rule's Options test holding) wait for a refresh
Pending ==
    /\ pc \in TreePositions
    /\ \/ reemitting \in Queued
       \/ pc = "execute" /\ next_optimization = reemitting
       \/ /\ reemitting \in Passes
          /\ OptionHolds(Rules[RuleOf(reemitting)].option)
          /\ RuleTags(RuleOf(reemitting)) \subseteq tags

\* C19: nothing caps the loop of optimizeTree.  With a pass that emits the tags
\* of its own rule every time it runs, once the pass is queued it stays queued,
\* running or due to be queued again by the next refresh, unless an exception
\* leaves optimizeTree: optimizeTree does not return, and optimizeWhole does
\* not go on to another module.
C19_NoReturnOnceLooping ==
    [][ Pending =>
            /\ pc' = "raised" \/ Pending'
            /\ pc' # "tree_return"
            /\ tree' = tree
            /\ done_modules' = done_modules
      ]_vars

\* C19 witness: the pass has run, a refresh in the loop has queued it again, and
\* it has been popped to run once more, after the other passes have emitted all
\* they emit, while a module of the registry waits to be optimized.
C19_Witness ==
    /\ pc = "execute"
    /\ next_optimization = reemitting
    /\ "new_code" \in RuleTags(RuleOf(reemitting))
    /\ ~last_refresh.initial
    /\ last_refresh # NoRefresh
    /\ reemitting \notin Range(last_refresh.before)
    /\ emits_left = 0
    /\ caller = "main"
    /\ imported_modules \ done_modules # {}

\* the modules optimizeTree has been called for
Called == { m \in Modules : calls[m] > 0 }

\* C21: optimizeTree is called for a module of the registry only when the entry
\* module is done; at most one module is called for and not done, and it is the
\* module optimizeTree is running on (or was left for by an exception): a
\* module is done exactly when its call has returned to optimizeWhole, and the
\* call returns with the queue empty.
C21_EntryFirstOneAtATime ==
    /\ Called \ { main_module } # {} => main_module \in done_modules
    /\ caller = "sweep" => main_module \in done_modules
    /\ Called \ done_modules = IF pc \in TreePositions \cup { "raised" } THEN { tree } ELSE {}
    /\ pc = "tree_return" => optimizations_queue = << >>

\* C21 witness: the call for a module of a registry of three modules, the entry
\* module among them, has returned; only the entry module is done so far.
C21_Witness ==
    /\ caller = "sweep"
    /\ pc = "tree_return"
    /\ tree # main_module
    /\ imported_modules = Modules
    /\ done_modules = { main_module }

\* C22: after a refresh of a queue that was not empty, the passes queued before
\* it are the front of the queue, in the order they had, and every pass behind
\* them is one that was not queued before: the refresh has removed nothing
\* and moved nothing.
C22_RefreshOnlyAppends ==
    (last_step = "refresh" /\ last_refresh.before # << >>) =>
        /\ Len(last_refresh.before) <= Len(optimizations_queue)
        /\ \A n \in DOMAIN last_refresh.before : optimizations_queue[n] = last_refresh.before[n]
        /\ \A n \in DOMAIN optimizations_queue :
               n > Len(last_refresh.before) =>
                   optimizations_queue[n] \notin Range(last_refresh.before)

\* C22 witness: "new_code" was in the TagSet while two or more passes were
\* queued, and the refresh added passes behind them.
C22_Witness ==
    /\ last_step = "refresh"
    /\ "new_code" \in last_refresh.seen
    /\ Len(last_refresh.before) >= 2
    /\ Len(optimizations_queue) > Len(last_refresh.before)

\* C23: for every TagSet and every setting of the options a refresh completes
\* without raising: no refresh ends by a NameError, every pass of a rule that
\* fires being a defined name.
C23_RefreshIsTotal ==
    /\ last_step # "NameError"
    /\ \A i \in DOMAIN Rules :
           RuleFires(i, last_refresh.seen) => Range(Rules[i].passes) \subseteq DefinedPasses

\* the union of the tag sets of a sequence of emissions
RECURSIVE UnionOf(_)
UnionOf(emissions) ==
    IF emissions = << >> THEN {} ELSE Head(emissions) \cup UnionOf(Tail(emissions))

\* C24: between two refreshes the TagSet is the union of what the passes run
\* since the previous refresh emitted: a pass that finishes with the queue
\* non-empty and "new_code" absent leaves the TagSet as it is, so at every
\* position of the loop the TagSet holds every tag emitted since the previous
\* refresh and nothing else, and the TagSet a refresh of the loop evaluates is
\* the union of those emissions. (Each execution pops a different pass of the
\* duplicate-free queue, so two emissions between two refreshes come from two
\* different passes.)
C24_TagsAccumulateBetweenRefreshes ==
    /\ pc \in { "loop", "execute", "check", "refresh" } => tags = UnionOf(emitted_since)
    /\ (last_step = "refresh" /\ ~last_refresh.initial) =>
           last_refresh.seen = UnionOf(last_refresh.emitted)

\* C24 witness: a refresh of the loop evaluates { var_usage, new_builtin }, the
\* two tags of the rule of MaybeLocalVariableReductionVisitor, of which one pass
\* emitted the first and a later pass the second, and the rule has fired
C24_Witness ==
    /\ ~check_all
    /\ last_step = "refresh"
    /\ ~last_refresh.initial
    /\ last_refresh.emitted = << { "var_usage" }, { "new_builtin" } >>
    /\ last_refresh.seen = { "var_usage", "new_builtin" }
    /\ "MaybeLocalVariableReductionVisitor" \in Queued

\* the modules registered in a sweep before the current one
CarriedOver == discovered \ new_in_sweep

\* C25: a sweep walks the list of the registry made when it started. A module
\* registered while the sweep runs is not in the list being walked and is not
\* the module being processed; at the end of that sweep finished is false, so
\* another sweep follows; and the modules registered in an earlier sweep are,
\* during the sweep, done, being processed or still in the list, and all done
\* when the sweep ends: each was processed in the sweep after its registration.
C25_SweepWalksSnapshot ==
    /\ pc = "for" \/ caller = "sweep" =>
          /\ other_modules \cap new_in_sweep = {}
          /\ tree \notin new_in_sweep
          /\ CarriedOver \subseteq done_modules \cup other_modules \cup { tree }
    /\ (pc = "while" /\ new_in_sweep # {}) => ~finished
    /\ pc = "while" => CarriedOver \subseteq done_modules

\* C25 witness: the sweep that processed module 1 registered module 2 and did
\* not process it; the following sweep has just processed it
C25_Witness ==
    /\ pc = "for"
    /\ last_step = "other done"
    /\ discovered = { main_module + 2 }
    /\ new_in_sweep = {}
    /\ calls[main_module + 2] = 1
    /\ done_modules = Modules
    /\ idle_sweeps = 0

\* C26: the pass is popped before it is executed: while it runs, and until the
\* test that follows it, it is not in the queue; a refresh of the loop whose
\* TagSet fires the rule of the pass just run puts that pass, which the queue
\* did not hold, back in the queue; and the queue never holds a pass twice.
C26_RunningPassNotQueued ==
    /\ pc \in { "execute", "check" } => next_optimization \notin Queued
    /\ (last_step = "refresh" /\ ~last_refresh.initial) =>
          /\ next_optimization \in DefinedPasses
          /\ next_optimization \notin Range(last_refresh.before)
          /\ RuleFires(RuleOf(next_optimization), last_refresh.seen) =>
                 next_optimization \in Queued
    /\ IsDuplicateFree(optimizations_queue)

\* C26 witness: a pass emitted a tag of its own rule while other passes were
\* queued, and the refresh that followed has queued it again, behind them
C26_Witness ==
    /\ last_step = "refresh"
    /\ ~last_refresh.initial
    /\ last_refresh.before # << >>
    /\ last_refresh.seen \cap Range(Rules[RuleOf(next_optimization)].tags) # {}
    /\ next_optimization \in Queued
    /\ next_optimization \notin Range(last_refresh.before)

\* C27: optimizeWhole returns the tree that the optimizeTree call for the entry
\* module returned: result is assigned once, when that call returns, holds the
\* entry module's tree from then on, whatever is registered and processed in the
\* sweeps, and is what is returned.
C27_ResultIsEntryTree ==
    /\ result \in { NoModule, main_module }
    /\ main_module \in done_modules => result = main_module
    /\ pc \in { "while", "for", "returned" } \/ caller = "sweep" => result = main_module

\* C27 witness: optimizeWhole has returned after processing two other modules,
\* one of them registered during a sweep
C27_Witness ==
    /\ pc = "returned"
    /\ result = main_module
    /\ done_modules = Modules
    /\ discovered # {}
    /\ \A m \in Modules : calls[m] = 1

====
